---- MODULE Spec2Model ----
(***************************************************************************)
(* A model of backend/tasks/scoring.py (class TaskScorer) together with    *)
(* the caller-owned task records it annotates in place.                    *)
(*                                                                         *)
(* Representation.                                                         *)
(*  - A task is a Python dict: a function from the field names it holds to *)
(*    their values.  A field that is absent is absent from the DOMAIN.     *)
(*  - The dicts live in `heap` under object references 1..n; `batch` and   *)
(*    `sorted_tasks` are lists of references, as Python lists are.         *)
(*  - A date is its proleptic Gregorian ordinal (date.toordinal()).  The   *)
(*    text of a date, "YYYY-MM-DD", is the triple <<YYYY, MM, DD>>; a      *)
(*    triple that names no calendar day is a text fromisoformat rejects.   *)
(*  - Numbers are fixed point: hours and the four component scores are     *)
(*    held in hundredths, weights in hundredths, score_breakdown entries   *)
(*    in tenths (round(x, 1)) and priority_score in hundredths             *)
(*    (round(x, 2)).  round() is round-half-even, taken here on the exact  *)
(*    decimal value; the binary float of the source can lie to either side *)
(*    of a decimal tie, which moves a priority_score by 0.01 there.        *)
(***************************************************************************)
EXTENDS Integers, Sequences, FiniteSets, TLC

VARIABLES
  heap,          \* the caller's task dicts, by object reference
  batch,         \* the caller's list of tasks: a list of references
  today,         \* what date.today() returns
  strategy,      \* self.strategy
  weights,       \* self.weights
  outcome,       \* how the last call ended: "none", "returned", "KeyError"
  sorted_tasks,  \* the list the last score_and_sort_tasks returned
  circular,      \* the set the last detect_circular_dependencies returned
  arg,           \* the argument of the last call of a leaf model
  score          \* what the last call of a leaf model returned

vars == <<heap, batch, today, strategy, weights,
          outcome, sorted_tasks, circular, arg, score>>

(***************************************************************************)
(* Python helpers: dict access, min, max, abs, round.                      *)
(***************************************************************************)
Get(d, key, default) == IF key \in DOMAIN d THEN d[key] ELSE default

Put(d, key, value) ==
  [k \in DOMAIN d \cup {key} |-> IF k = key THEN value ELSE d[k]]

Min(a, b) == IF a <= b THEN a ELSE b

Max(a, b) == IF a >= b THEN a ELSE b

Abs(a) == IF a < 0 THEN -a ELSE a

\* round(): x counted in units of 1/unit of the target place, x >= 0.
RoundHalfEven(x, unit) ==
  LET q == x \div unit
      r == x % unit
  IN  IF 2 * r < unit THEN q
      ELSE IF 2 * r > unit THEN q + 1
      ELSE IF q % 2 = 0 THEN q ELSE q + 1

(***************************************************************************)
(* The calendar behind datetime.date: ordinals, ISO text, weekdays.        *)
(***************************************************************************)
Years == 2025..2027

IsLeap(y) == y % 4 = 0 /\ (y % 100 # 0 \/ y % 400 = 0)

DaysInMonth(y, m) ==
  IF m = 2 THEN (IF IsLeap(y) THEN 29 ELSE 28)
  ELSE IF m \in {4, 6, 9, 11} THEN 30 ELSE 31

DaysBeforeYear(y) ==
  (y - 1) * 365 + (y - 1) \div 4 - (y - 1) \div 100 + (y - 1) \div 400

\* The days of a year before the first of month m.
DaysBeforeMonth(y, m) ==
  <<0, 31, 59, 90, 120, 151, 181, 212, 243, 273, 304, 334>>[m]
  + (IF m > 2 /\ IsLeap(y) THEN 1 ELSE 0)

\* date(y, m, d).toordinal()
ToOrdinal(y, m, d) == DaysBeforeYear(y) + DaysBeforeMonth(y, m) + d

\* date.fromisoformat accepts exactly the texts that name a calendar day.
IsIsoDate(s) ==
  /\ s[1] \in Years
  /\ s[2] \in 1..12
  /\ s[3] \in 1..DaysInMonth(s[1], s[2])

\* date.fromisoformat(s), for a text it accepts.
FromIsoFormat(s) == ToOrdinal(s[1], s[2], s[3])

\* str(date): the ISO text of an ordinal.
DateStr(n) ==
  LET y == CHOOSE yy \in Years :
             DaysBeforeYear(yy) < n /\ n <= DaysBeforeYear(yy + 1)
      k == n - DaysBeforeYear(y)
      m == CHOOSE mm \in 1..12 :
             /\ DaysBeforeMonth(y, mm) < k
             /\ k <= DaysBeforeMonth(y, mm) + DaysInMonth(y, mm)
  IN  <<y, m, k - DaysBeforeMonth(y, m)>>

\* date.weekday(): Monday = 0 ... Sunday = 6.
Weekday(n) == (n + 6) % 7

is_weekend(check_date) == Weekday(check_date) >= 5

RECURSIVE count_from(_, _)
count_from(current, end_date) ==
  IF current > end_date THEN 0
  ELSE (IF is_weekend(current) THEN 0 ELSE 1) + count_from(current + 1, end_date)

count_business_days(start_date, end_date) ==
  IF start_date > end_date THEN 0 ELSE count_from(start_date, end_date)

(***************************************************************************)
(* Strategy weights (hundredths).                                          *)
(***************************************************************************)
StrategyTable ==
  [ smart_balance   |-> [urgency |-> 35, importance |-> 30, effort |-> 15, dependencies |-> 20],
    fastest_wins    |-> [urgency |-> 20, importance |-> 20, effort |-> 50, dependencies |-> 10],
    high_impact     |-> [urgency |-> 15, importance |-> 60, effort |-> 10, dependencies |-> 15],
    deadline_driven |-> [urgency |-> 60, importance |-> 20, effort |-> 5,  dependencies |-> 15] ]

\* A lookup that falls back to the wrong row.
get_weights_or_fastest(name) == Get(StrategyTable, name, StrategyTable["fastest_wins"])

_get_weights(name) == Get(StrategyTable, name, StrategyTable["smart_balance"])

(***************************************************************************)
(* The leaf models.  Component scores are returned in hundredths.          *)
(***************************************************************************)
\* An urgency model that takes the weekend penalty off a past due date too.
urgency_with_penalty_when_overdue(due_date_str, now) ==
  IF ~IsIsoDate(due_date_str) THEN 5000
  ELSE
    LET due_date        == FromIsoFormat(due_date_str)
        calendar_days   == due_date - now
        weekend_penalty == IF is_weekend(due_date) THEN 500 ELSE 0
    IN  IF calendar_days < 0
          THEN 10000 + Min(Abs(calendar_days) * 500, 10000) - weekend_penalty
        ELSE 9500 - weekend_penalty

\* calculate_urgency_score(due_date_str), with now what date.today() returns.
\* A text that fromisoformat rejects raises ValueError, and the except clause
\* returns the default.
calculate_urgency_score(due_date_str, now) ==
  IF ~IsIsoDate(due_date_str) THEN 5000
  ELSE
    LET due_date        == FromIsoFormat(due_date_str)
        calendar_days   == due_date - now
        business_days   == count_business_days(now, due_date)
        weekend_penalty == IF is_weekend(due_date) THEN 500 ELSE 0
    IN  IF calendar_days < 0
          THEN 10000 + Min(Abs(calendar_days) * 500, 10000)
        ELSE IF calendar_days <= 1
          THEN 9500 - weekend_penalty
        ELSE IF calendar_days <= 7
          THEN IF business_days <= 3
                 THEN 9000 - weekend_penalty
                 ELSE 8500 - business_days * 200 - weekend_penalty
        ELSE IF calendar_days <= 14
          THEN 7000 - (business_days - 5) * 200 - weekend_penalty
        ELSE IF calendar_days <= 30
          THEN Max(5000 - (business_days - 10) * 150, 2000) - weekend_penalty
        ELSE Max(2000 - (calendar_days - 30) * 50, 500)

calculate_effort_score(estimated_hours) ==
  IF estimated_hours <= 0 THEN 5000
  ELSE IF estimated_hours < 200 THEN 9000
  ELSE IF estimated_hours <= 800 THEN 7000 - (estimated_hours - 200) * 5
  ELSE Max(3000 - (estimated_hours - 800) * 2, 1000)

calculate_importance_score(importance) ==
  Min(Max(importance, 1), 10) * 1000

(***************************************************************************)
(* The dependency pressure model.                                          *)
(***************************************************************************)
\* `x in lst` for a Python list.
InList(x, lst) == \E i \in DOMAIN lst : lst[i] = x

\* list.count(x)
Occurrences(x, lst) == Cardinality({i \in DOMAIN lst : lst[i] = x})

\* A count of the occurrences of the id in the dependency lists, a task that
\* lists it twice counted twice.
RECURSIVE count_occurrences(_, _, _)
count_occurrences(task_id, all_tasks, i) ==
  IF i > Len(all_tasks) THEN 0
  ELSE Occurrences(task_id, Get(all_tasks[i], "dependencies", <<>>))
       + count_occurrences(task_id, all_tasks, i + 1)

\* sum(1 for t in all_tasks if task_id in t.get('dependencies', []))
RECURSIVE count_dependents(_, _, _)
count_dependents(task_id, all_tasks, i) ==
  IF i > Len(all_tasks) THEN 0
  ELSE (IF InList(task_id, Get(all_tasks[i], "dependencies", <<>>)) THEN 1 ELSE 0)
       + count_dependents(task_id, all_tasks, i + 1)

calculate_dependency_score(task_id, all_tasks) ==
  LET dependent_count == count_dependents(task_id, all_tasks, 1)
  IN  IF dependent_count = 0 THEN 3000
      ELSE Min(3000 + dependent_count * 2500, 10000)

(***************************************************************************)
(* The cycle detector.                                                     *)
(***************************************************************************)
\* The keys of {t['id']: ... for t in tasks}, in insertion order.
RECURSIVE task_map_keys(_, _)
task_map_keys(tasks, i) ==
  IF i = 0 THEN <<>>
  ELSE LET before == task_map_keys(tasks, i - 1)
       IN  IF InList(tasks[i]["id"], before) THEN before
           ELSE Append(before, tasks[i]["id"])

\* The dict {t['id']: t.get('dependencies', []) for t in tasks}: a later task
\* with the same id overwrites the value of an earlier one.
build_task_map(tasks) ==
  LET keys == task_map_keys(tasks, Len(tasks))
  IN  [ keys |-> keys,
        deps |-> [k \in {keys[j] : j \in DOMAIN keys} |->
                    LET last == CHOOSE i \in DOMAIN tasks :
                                  /\ tasks[i]["id"] = k
                                  /\ \A j \in DOMAIN tasks :
                                       tasks[j]["id"] = k => j <= i
                    IN  Get(tasks[last], "dependencies", <<>>)] ]

\* has_cycle(task_id, visited, rec_stack): st carries the three mutable sets
\* (visited, rec_stack, circular) and, on return, the returned boolean.
RECURSIVE has_cycle(_, _, _), has_cycle_loop(_, _, _, _)
has_cycle(task_map, task_id, st) ==
  has_cycle_loop(task_map, task_id, 1,
                 [st EXCEPT !.visited   = @ \cup {task_id},
                            !.rec_stack = @ \cup {task_id}])

\* has_cycle_loop that reports a cycle found below without adding the current
\* task to circular.
has_cycle_loop_unmarked(task_map, task_id, i, st) ==
  LET deps == Get(task_map.deps, task_id, <<>>)
  IN  IF i > Len(deps)
        THEN [st EXCEPT !.rec_stack = @ \ {task_id}, !.ret = FALSE]
      ELSE IF deps[i] \notin st.visited
        THEN LET r == has_cycle(task_map, deps[i], st)
             IN  IF r.ret
                   THEN [r EXCEPT !.ret = TRUE]
                   ELSE has_cycle_loop(task_map, task_id, i + 1, r)
      ELSE IF deps[i] \in st.rec_stack
        THEN [st EXCEPT !.circular = @ \cup {task_id, deps[i]}, !.ret = TRUE]
      ELSE has_cycle_loop(task_map, task_id, i + 1, st)

\* has_cycle_loop that takes every dependency visited before for a back edge.
has_cycle_loop_visited(task_map, task_id, i, st) ==
  LET deps == Get(task_map.deps, task_id, <<>>)
  IN  IF i > Len(deps)
        THEN [st EXCEPT !.rec_stack = @ \ {task_id}, !.ret = FALSE]
      ELSE IF deps[i] \notin st.visited
        THEN LET r == has_cycle(task_map, deps[i], st)
             IN  IF r.ret
                   THEN [r EXCEPT !.circular = @ \cup {task_id}, !.ret = TRUE]
                   ELSE has_cycle_loop(task_map, task_id, i + 1, r)
      ELSE [st EXCEPT !.circular = @ \cup {task_id, deps[i]}, !.ret = TRUE]

\* has_cycle_loop that leaves the task on rec_stack when its loop ends.
has_cycle_loop_unpopped(task_map, task_id, i, st) ==
  LET deps == Get(task_map.deps, task_id, <<>>)
  IN  IF i > Len(deps)
        THEN [st EXCEPT !.ret = FALSE]
      ELSE IF deps[i] \notin st.visited
        THEN LET r == has_cycle(task_map, deps[i], st)
             IN  IF r.ret
                   THEN [r EXCEPT !.circular = @ \cup {task_id}, !.ret = TRUE]
                   ELSE has_cycle_loop(task_map, task_id, i + 1, r)
      ELSE IF deps[i] \in st.rec_stack
        THEN [st EXCEPT !.circular = @ \cup {task_id, deps[i]}, !.ret = TRUE]
      ELSE has_cycle_loop(task_map, task_id, i + 1, st)

\* The for loop of has_cycle from its i-th dependency on, and what follows it.
has_cycle_loop(task_map, task_id, i, st) ==
  LET deps == Get(task_map.deps, task_id, <<>>)
  IN  IF i > Len(deps)
        THEN [st EXCEPT !.rec_stack = @ \ {task_id}, !.ret = FALSE]
      ELSE IF deps[i] \notin st.visited
        THEN LET r == has_cycle(task_map, deps[i], st)
             IN  IF r.ret
                   THEN [r EXCEPT !.circular = @ \cup {task_id}, !.ret = TRUE]
                   ELSE has_cycle_loop(task_map, task_id, i + 1, r)
      ELSE IF deps[i] \in st.rec_stack
        THEN [st EXCEPT !.circular = @ \cup {task_id, deps[i]}, !.ret = TRUE]
      ELSE has_cycle_loop(task_map, task_id, i + 1, st)

\* The loop over task_map that starts a traversal, with a fresh rec_stack,
\* at every key not yet visited.
RECURSIVE detect_roots(_, _, _)
detect_roots(task_map, i, st) ==
  IF i > Len(task_map.keys) THEN st
  ELSE IF task_map.keys[i] \in st.visited
    THEN detect_roots(task_map, i + 1, st)
  ELSE detect_roots(task_map, i + 1,
         has_cycle(task_map, task_map.keys[i], [st EXCEPT !.rec_stack = {}]))

\* t['id'] raises KeyError for a task that holds no id.
RaisesKeyError(tasks) == \E i \in DOMAIN tasks : "id" \notin DOMAIN tasks[i]

\* detect_circular_dependencies(tasks), for tasks that all hold an id.
detect_circular_dependencies(tasks) ==
  detect_roots(build_task_map(tasks), 1,
               [visited |-> {}, rec_stack |-> {}, circular |-> {}, ret |-> FALSE]).circular

(***************************************************************************)
(* The aggregator.                                                         *)
(***************************************************************************)
\* str(hash(title)): a text derived from the title alone.
HashStr(title) == "hash:" \o title

\* task.get('id', str(hash(task.get('title', ''))))
task_id_of(task) == Get(task, "id", HashStr(Get(task, "title", "")))

\* A scoring that takes today, not today + 30, for a missing due date.
priority_score_due_today(task, all_tasks, w, now1, now2) ==
  LET urgency          == calculate_urgency_score(Get(task, "due_date", DateStr(now1)), now2)
      effort           == calculate_effort_score(Get(task, "estimated_hours", 500))
      importance_score == calculate_importance_score(Get(task, "importance", 5))
      dependency       == calculate_dependency_score(task_id_of(task), all_tasks)
      final_score      == urgency * w.urgency + importance_score * w.importance
                          + effort * w.effort + dependency * w.dependencies
  IN  Put(Put(task, "priority_score", RoundHalfEven(final_score, 100)),
          "score_breakdown",
          [ urgency      |-> RoundHalfEven(urgency, 10),
            importance   |-> RoundHalfEven(importance_score, 10),
            effort       |-> RoundHalfEven(effort, 10),
            dependencies |-> RoundHalfEven(dependency, 10),
            final        |-> RoundHalfEven(final_score, 100) ])

\* calculate_priority_score(task, all_tasks); now1 and now2 are what
\* date.today() returns at line 194 and at line 75.
calculate_priority_score(task, all_tasks, w, now1, now2) ==
  LET task_id          == task_id_of(task)
      due_date         == Get(task, "due_date", DateStr(now1 + 30))
      estimated_hours  == Get(task, "estimated_hours", 500)
      importance       == Get(task, "importance", 5)
      urgency          == calculate_urgency_score(due_date, now2)
      effort           == calculate_effort_score(estimated_hours)
      importance_score == calculate_importance_score(importance)
      dependency       == calculate_dependency_score(task_id, all_tasks)
      final_score      == urgency * w.urgency + importance_score * w.importance
                          + effort * w.effort + dependency * w.dependencies
  IN  Put(Put(task, "priority_score", RoundHalfEven(final_score, 100)),
          "score_breakdown",
          [ urgency      |-> RoundHalfEven(urgency, 10),
            importance   |-> RoundHalfEven(importance_score, 10),
            effort       |-> RoundHalfEven(effort, 10),
            dependencies |-> RoundHalfEven(dependency, 10),
            final        |-> RoundHalfEven(final_score, 100) ])

\* A sort that breaks ties the other way round: the new element goes before
\* the elements of equal score.
RECURSIVE insert_desc_ties_first(_, _, _)
insert_desc_ties_first(h, lst, ref) ==
  IF lst = <<>> THEN <<ref>>
  ELSE IF h[Head(lst)]["priority_score"] > h[ref]["priority_score"]
    THEN <<Head(lst)>> \o insert_desc_ties_first(h, Tail(lst), ref)
  ELSE <<ref>> \o lst

\* list.insert into a list sorted descending by priority_score, after every
\* element whose score is at least the new one's.
RECURSIVE insert_desc(_, _, _)
insert_desc(h, lst, ref) ==
  IF lst = <<>> THEN <<ref>>
  ELSE IF h[Head(lst)]["priority_score"] >= h[ref]["priority_score"]
    THEN <<Head(lst)>> \o insert_desc(h, Tail(lst), ref)
  ELSE <<ref>> \o lst

\* sorted(scored_tasks, key=lambda x: x['priority_score'], reverse=True):
\* a stable sort; reverse=True keeps the input order of equal keys.
RECURSIVE sorted_desc_upto(_, _, _)
sorted_desc_upto(h, lst, i) ==
  IF i = 0 THEN <<>>
  ELSE insert_desc(h, sorted_desc_upto(h, lst, i - 1), lst[i])

\* sorted() without reverse=True: the stable sort, ascending.
sorted_asc(h, lst) ==
  LET d == sorted_desc_upto(h, lst, Len(lst))
  IN  [i \in DOMAIN d |-> d[Len(d) + 1 - i]]

sorted_desc(h, lst) == sorted_desc_upto(h, lst, Len(lst))

\* The dicts a list of references holds.
Deref(h, b) == [k \in DOMAIN b |-> h[b[k]]]

\* The scoring loop of score_and_sort_tasks from the i-th task on; clock[j] is
\* what the j-th call of date.today() within the loop returns.
RECURSIVE score_each(_, _, _, _, _, _)
score_each(h, b, i, circ, w, clock) ==
  IF i > Len(b) THEN h
  ELSE LET scored_task == calculate_priority_score(h[b[i]], Deref(h, b), w,
                                                   clock[2 * i - 1], clock[2 * i])
           flagged     == IF task_id_of(scored_task) \in circ
                            THEN Put(scored_task, "has_circular_dependency", TRUE)
                            ELSE scored_task
       IN  score_each([h EXCEPT ![b[i]] = flagged], b, i + 1, circ, w, clock)

(***************************************************************************)
(* The inputs: the batches a caller hands over.                            *)
(***************************************************************************)
MaxTasks == 2

MaxDays == 1

FirstDay == ToOrdinal(2026, 11, 3)

StrategyNames ==
  {"smart_balance", "fastest_wins", "high_impact", "deadline_driven", "no_such_strategy"}

IdOf(i) == <<"a", "b", "c", "d", "e">>[i]

TitleOf(i) == <<"A", "B", "C", "D", "E">>[i]

\* An id that names no task of any batch.
Dangling == "z"

EmptyDict == [k \in {} |-> 0]

\* A dict holding the one field, or none when the field is absent.
Field(key, present, value) == IF present THEN key :> value ELSE EmptyDict

\* The dependency lists of length at most len over the ids.
DepLists(ids, len) == UNION {[1..k -> ids] : k \in 0..len}

\* The scheduling attributes of a record: none at all; due today, quick and
\* important; a date text that names no day, zero hours, importance off the
\* scale.
Profiles ==
  { EmptyDict,
    ("due_date" :> DateStr(FirstDay)) @@ ("estimated_hours" :> 150) @@ ("importance" :> 9),
    ("due_date" :> <<2026, 2, 30>>) @@ ("estimated_hours" :> 0) @@ ("importance" :> 15) }

\* The records the caller may hold at position i of a batch: with or without
\* an id, scheduled by one of the profiles, depending on nothing, on the first
\* task of the batch (the first task then on itself) or on a task not in it.
TaskPool(i) ==
  { ("title" :> TitleOf(i)) @@ Field("id", has_id, IdOf(i))
      @@ Field("dependencies", deps # <<>>, deps) @@ profile :
      has_id \in BOOLEAN,
      deps \in DepLists({IdOf(1), Dangling}, 1),
      profile \in Profiles }

\* The heaps of n records, the i-th drawn from TaskPool(i).
RECURSIVE Heaps(_)
Heaps(n) ==
  IF n = 0 THEN {<<>>}
  ELSE {Append(h, t) : h \in Heaps(n - 1), t \in TaskPool(n)}

NoCall ==
  /\ sorted_tasks = <<>>
  /\ circular = {}
  /\ arg = ""
  /\ score = 0
  /\ outcome = "none"

Init ==
  /\ \E n \in 1..MaxTasks :
       /\ heap \in Heaps(n)
       /\ batch = [i \in 1..n |-> i]
  /\ today = FirstDay
  /\ strategy \in StrategyNames
  /\ weights = _get_weights(strategy)
  /\ NoCall

(***************************************************************************)
(* The operations.                                                         *)
(***************************************************************************)
\* What the j-th of the call's reads of date.today() returns when the date
\* rolls over just before the roll-th read.
Clock(now, roll, reads) == [j \in 1..reads |-> IF j < roll THEN now ELSE now + 1]

\* scorer.score_and_sort_tasks(batch).  The date may roll over once while the
\* call runs.  A task without an id ends the call in detect_circular_
\* dependencies, before any record is written.
ScoreAndSortTasks ==
  LET tasks == Deref(heap, batch)
      reads == 2 * Len(batch)
  IN  IF RaisesKeyError(tasks)
        THEN /\ outcome' = "KeyError"
             /\ UNCHANGED <<heap, batch, today, strategy, weights,
                            sorted_tasks, circular, arg, score>>
        ELSE \E roll \in 1..(reads + 1) :
               /\ roll <= reads => today < FirstDay + MaxDays
               /\ LET circ   == detect_circular_dependencies(tasks)
                      scored == score_each(heap, batch, 1, circ, weights,
                                           Clock(today, roll, reads))
                  IN  /\ heap' = scored
                      /\ circular' = circ
                      /\ sorted_tasks' = sorted_desc(scored, batch)
               /\ today' = IF roll <= reads THEN today + 1 ELSE today
               /\ outcome' = "returned"
               /\ UNCHANGED <<batch, strategy, weights, arg, score>>

Next == ScoreAndSortTasks

Spec == Init /\ [][Next]_vars

(***************************************************************************)
(* A session: the caller keeps its records, edits their dependencies and   *)
(* reorders the batch between calls of score_and_sort_tasks.               *)
(***************************************************************************)
TaskIds(n) == {IdOf(k) : k \in 1..n}

\* The caller rewrites the dependencies of one of its records.
EditDependencies ==
  \E ref \in DOMAIN heap :
    \E deps \in DepLists(TaskIds(Len(heap)) \cup {Dangling}, 1) :
      /\ heap' = [heap EXCEPT ![ref] = Put(@, "dependencies", deps)]
      /\ UNCHANGED <<batch, today, strategy, weights,
                     outcome, sorted_tasks, circular, arg, score>>

\* The caller reorders its batch: two neighbours change places.
ReorderBatch ==
  \E i \in 1..(Len(batch) - 1) :
    /\ batch' = [batch EXCEPT ![i] = batch[i + 1], ![i + 1] = batch[i]]
    /\ UNCHANGED <<heap, today, strategy, weights,
                   outcome, sorted_tasks, circular, arg, score>>

\* The records of a session: the i-th holds the i-th id, no scheduling
\* attribute, and depends on at most one task of the batch or outside it.
SessionHeaps(n) ==
  { [i \in 1..n |-> ("title" :> TitleOf(i)) @@ ("id" :> IdOf(i))
                      @@ Field("dependencies", deps[i] # <<>>, deps[i])] :
      deps \in [1..n -> DepLists(TaskIds(n) \cup {Dangling}, 1)] }

InitSession ==
  /\ \E n \in 1..MaxTasks :
       /\ heap \in SessionHeaps(n)
       /\ batch = [i \in 1..n |-> i]
  /\ today = FirstDay
  /\ strategy = "smart_balance"
  /\ weights = _get_weights(strategy)
  /\ NoCall

NextSession == ScoreAndSortTasks \/ EditDependencies \/ ReorderBatch

SpecSession == InitSession /\ [][NextSession]_vars

(***************************************************************************)
(* The cycle detector on its own: detect_circular_dependencies(tasks).     *)
(***************************************************************************)
MaxNodes == 3

\* The lists of at most two different dependencies.
DepPairs(ids) == {l \in DepLists(ids, 2) : Len(l) < 2 \/ l[1] # l[2]}

\* The batches of n tasks, the i-th holding the i-th id and at most two
\* dependencies, on tasks of the batch or on a task outside it.  The first
\* task holds no dependencies field when it depends on nothing.
GraphHeaps(n) ==
  { [i \in 1..n |-> ("id" :> IdOf(i))
                      @@ Field("dependencies", i > 1 \/ deps[i] # <<>>, deps[i])] :
      deps \in [1..n -> DepPairs(TaskIds(n) \cup {Dangling})] }

InitGraph ==
  /\ \E n \in 1..MaxNodes :
       /\ heap \in GraphHeaps(n)
       /\ batch = [i \in 1..n |-> i]
  /\ today = FirstDay
  /\ strategy = "smart_balance"
  /\ weights = _get_weights(strategy)
  /\ NoCall

\* scorer.detect_circular_dependencies(batch)
DetectCircularDependencies ==
  LET tasks == Deref(heap, batch)
  IN  /\ IF RaisesKeyError(tasks)
           THEN outcome' = "KeyError" /\ UNCHANGED circular
           ELSE /\ circular' = detect_circular_dependencies(tasks)
                /\ outcome' = "returned"
      /\ UNCHANGED <<heap, batch, today, strategy, weights,
                     sorted_tasks, arg, score>>

NextGraph == DetectCircularDependencies

SpecGraph == InitGraph /\ [][NextGraph]_vars

(***************************************************************************)
(* The dependency pressure model on its own.                               *)
(***************************************************************************)
MaxDependents == 3

\* The batches of n tasks, each with or without a dependencies field that
\* lists the first task or a task outside the batch, possibly twice.
DependencyHeaps(n) ==
  { [i \in 1..n |-> ("id" :> IdOf(i)) @@ Field("dependencies", has[i], deps[i])] :
      has \in [1..n -> BOOLEAN],
      deps \in [1..n -> DepLists({IdOf(1), Dangling}, 2)] }

InitDependency ==
  /\ \E n \in 1..MaxDependents :
       /\ heap \in DependencyHeaps(n)
       /\ batch = [i \in 1..n |-> i]
  /\ today = FirstDay
  /\ strategy = "smart_balance"
  /\ weights = _get_weights(strategy)
  /\ NoCall

\* scorer.calculate_dependency_score(task_id, batch), for the first task's id,
\* an id outside the batch or an id no task lists.
CalculateDependencyScore ==
  \E task_id \in {IdOf(1), Dangling, "q"} :
    /\ arg' = task_id
    /\ score' = calculate_dependency_score(task_id, Deref(heap, batch))
    /\ outcome' = "returned"
    /\ UNCHANGED <<heap, batch, today, strategy, weights, sorted_tasks, circular>>

NextDependency == CalculateDependencyScore

SpecDependency == InitDependency /\ [][NextDependency]_vars

(***************************************************************************)
(* The urgency model on its own.                                           *)
(***************************************************************************)
MaxOverdue == 22

MaxAhead == 33

\* Date texts that name no calendar day.
BadDateTexts == {<<2026, 2, 30>>, <<2026, 13, 1>>, <<2026, 11, 0>>}

InitUrgency ==
  /\ heap = <<>>
  /\ batch = <<>>
  /\ today \in FirstDay..(FirstDay + 6)
  /\ strategy = "smart_balance"
  /\ weights = _get_weights(strategy)
  /\ NoCall

\* scorer.calculate_urgency_score(due_date_str)
CalculateUrgencyScore ==
  \E due_date_str \in {DateStr(today + k) : k \in (-MaxOverdue)..MaxAhead}
                        \cup BadDateTexts :
    /\ arg' = due_date_str
    /\ score' = calculate_urgency_score(due_date_str, today)
    /\ outcome' = "returned"
    /\ UNCHANGED <<heap, batch, today, strategy, weights, sorted_tasks, circular>>

NextUrgency == CalculateUrgencyScore

SpecUrgency == InitUrgency /\ [][NextUrgency]_vars

(***************************************************************************)
(* calculate_priority_score on its own.                                    *)
(***************************************************************************)
\* The optional fields of the task to score: each absent or one of a few
\* values, well formed or not.
OptionalFields ==
  { Field("due_date", has_due, due) @@ Field("estimated_hours", has_hours, hours)
      @@ Field("importance", has_imp, imp) @@ Field("dependencies", has_deps, deps) :
      has_due \in BOOLEAN, due \in {DateStr(FirstDay - 3), DateStr(FirstDay + 10), <<2026, 2, 30>>},
      has_hours \in BOOLEAN, hours \in {0, 225, 1000},
      has_imp \in BOOLEAN, imp \in {0, 7},
      has_deps \in BOOLEAN, deps \in {<<>>, <<IdOf(1)>>} }

\* The batches to score the first task of: the task, with or without an id,
\* alone or followed by a task that depends on it.
ScoreHeaps ==
  { <<("title" :> TitleOf(1)) @@ Field("id", has_id, IdOf(1)) @@ fields>> \o others :
      has_id \in BOOLEAN, fields \in OptionalFields,
      others \in { <<>>, <<("id" :> IdOf(2)) @@ ("dependencies" :> <<IdOf(1)>>)>> } }

InitScore ==
  /\ heap \in ScoreHeaps
  /\ batch = [i \in DOMAIN heap |-> i]
  /\ today = FirstDay
  /\ strategy \in StrategyNames
  /\ weights = _get_weights(strategy)
  /\ NoCall

\* scorer.calculate_priority_score(batch[0], batch).  The date may roll over
\* before either of the call's two reads of date.today().
CalculatePriorityScore ==
  \E roll \in 1..3 :
    /\ roll <= 2 => today < FirstDay + MaxDays
    /\ LET clock == Clock(today, roll, 2)
       IN  heap' = [heap EXCEPT ![batch[1]] =
                      calculate_priority_score(@, Deref(heap, batch), weights,
                                               clock[1], clock[2])]
    /\ today' = IF roll <= 2 THEN today + 1 ELSE today
    /\ outcome' = "returned"
    /\ UNCHANGED <<batch, strategy, weights, sorted_tasks, circular, arg, score>>

NextScore == CalculatePriorityScore

SpecScore == InitScore /\ [][NextScore]_vars

(***************************************************************************)
(* Scorers constructed under one strategy name after another, each used to *)
(* score the first task of the batch.                                      *)
(***************************************************************************)
\* TaskScorer(): the strategy argument left at its default.
InitStrategy ==
  /\ heap \in Heaps(1)
  /\ batch = <<1>>
  /\ today = FirstDay
  /\ strategy = "smart_balance"
  /\ weights = _get_weights(strategy)
  /\ NoCall

\* scorer = TaskScorer(name): __init__ stores the name and looks the weights
\* up once.  Nothing of the previous scorer is kept.
NewTaskScorer ==
  \E name \in StrategyNames :
    /\ strategy' = name
    /\ weights' = _get_weights(name)
    /\ outcome' = "none"
    /\ UNCHANGED <<heap, batch, today, sorted_tasks, circular, arg, score>>

NextStrategy == NewTaskScorer \/ CalculatePriorityScore

SpecStrategy == InitStrategy /\ [][NextStrategy]_vars

(***************************************************************************)
(* Properties of score_and_sort_tasks.                                     *)
(***************************************************************************)
\* The place of a reference in a list that holds it once.
Pos(lst, ref) == CHOOSE i \in DOMAIN lst : lst[i] = ref

PriorityOf(ref) == heap[ref]["priority_score"]

\* C1: under every strategy, what score_and_sort_tasks returns is a
\* permutation of the batch (same length, every input record exactly once)
\* whose priority_score never increases from one place to the next.
C1_SortedPermutation ==
  outcome = "returned" =>
    /\ Len(sorted_tasks) = Len(batch)
    /\ \A i \in DOMAIN batch :
         Cardinality({j \in DOMAIN sorted_tasks : sorted_tasks[j] = batch[i]}) = 1
    /\ \A j \in 1..(Len(sorted_tasks) - 1) :
         PriorityOf(sorted_tasks[j]) >= PriorityOf(sorted_tasks[j + 1])

\* A call returned a batch of at least two records in another order than it
\* was given, the first ranked strictly above the last.
C1_Witness ==
  /\ outcome = "returned"
  /\ Len(batch) >= 2
  /\ sorted_tasks # batch
  /\ PriorityOf(sorted_tasks[1]) > PriorityOf(sorted_tasks[Len(sorted_tasks)])

\* C5: score_and_sort_tasks never raises on a batch of field mappings; a task
\* without an id is scored under a surrogate id, and every task comes back
\* with a priority_score.
C5_NeverRaises ==
  outcome # "none" =>
    /\ outcome = "returned"
    /\ \A i \in DOMAIN batch : "priority_score" \in DOMAIN heap[batch[i]]

\* C6: after any sequence of calls, with edits of the dependencies and
\* reorderings of the batch in between, a record carries
\* has_circular_dependency exactly when its id is in the cycle set the most
\* recent call detected.
C6_FlagIffInLatestCycleSet ==
  outcome = "returned" =>
    \A ref \in DOMAIN heap :
      ("has_circular_dependency" \in DOMAIN heap[ref])
        <=> (heap[ref]["id"] \in circular)

\* C7: two tasks of equal priority_score are returned in the order the batch
\* had them.
C7_StableSort ==
  outcome = "returned" =>
    \A i, j \in DOMAIN sorted_tasks :
      (i < j /\ PriorityOf(sorted_tasks[i]) = PriorityOf(sorted_tasks[j]))
        => Pos(batch, sorted_tasks[i]) < Pos(batch, sorted_tasks[j])

\* A call returned two tasks of equal score.
C7_Witness ==
  /\ outcome = "returned"
  /\ \E i, j \in DOMAIN sorted_tasks :
       i < j /\ PriorityOf(sorted_tasks[i]) = PriorityOf(sorted_tasks[j])

(***************************************************************************)
(* Properties of detect_circular_dependencies.                             *)
(***************************************************************************)
BatchIds == {heap[batch[i]]["id"] : i \in DOMAIN batch}

\* The dependency lists of the tasks with the given id.
DepListsOf(id) ==
  {Get(heap[ref], "dependencies", <<>>) : ref \in {r \in DOMAIN heap : heap[r]["id"] = id}}

\* The ids the task with the given id depends on; none for any other id.
DepsOf(id) == UNION {{l[k] : k \in DOMAIN l} : l \in DepListsOf(id)}

\* The ids reached from the ids of S along any number of dependency edges.
RECURSIVE Closure(_)
Closure(S) ==
  LET T == S \cup UNION {DepsOf(x) : x \in S}
  IN  IF T = S THEN S ELSE Closure(T)

\* The ids reached from id along one or more dependency edges.
ReachedFrom(id) == Closure(DepsOf(id))

OnCycle(id) == id \in ReachedFrom(id)

Acyclic == \A id \in BatchIds : ~OnCycle(id)

\* The batch is one ring: each task depends on exactly one task, and following
\* the dependencies from any task passes through every task of the batch.
IsRing ==
  /\ \A ref \in DOMAIN heap : Len(Get(heap[ref], "dependencies", <<>>)) = 1
  /\ \A id \in BatchIds : ReachedFrom(id) = BatchIds

\* C2: on a batch whose dependency graph is one directed ring of n >= 1
\* tasks, in whatever order the batch lists them, the detector returns all n
\* ids.
C2_RingFullyDetected ==
  (outcome = "returned" /\ IsRing) => circular = BatchIds

\* The detector ran on a ring of three tasks that the batch does not list in
\* ring order.
C2_Witness ==
  /\ outcome = "returned"
  /\ IsRing
  /\ Len(batch) = 3
  /\ heap[batch[1]]["dependencies"] = <<IdOf(3)>>

\* C3: on a batch without a dependency cycle the detector returns the empty
\* set, and an id that names no task is in no result.
C3_AcyclicIsClean ==
  outcome = "returned" =>
    /\ circular # {} => ~Acyclic
    /\ Dangling \notin circular

\* The detector ran on an acyclic batch in which a task has a dangling
\* dependency and one prerequisite is reached along two paths.
C3_Witness ==
  /\ outcome = "returned"
  /\ Acyclic
  /\ \E id \in BatchIds : Dangling \in DepsOf(id)
  /\ \E x, y, z \in BatchIds :
       /\ x # y /\ y # z /\ x # z
       /\ {y, z} \subseteq DepsOf(x) /\ z \in DepsOf(y)

WithDefaults(t, now) ==
  t @@ ("due_date" :> DateStr(now + 30)) @@ ("estimated_hours" :> 500)
    @@ ("importance" :> 5) @@ ("dependencies" :> <<>>)

\* Scoring the task again on the date of the state leaves it as it is.
Rescored(t) ==
  calculate_priority_score(t, [Deref(heap, batch) EXCEPT ![1] = t], weights, today, today) = t

\* C8: whatever optional fields a task lacks, under every strategy,
\* calculate_priority_score scores it as the task with the defaults filled in
\* (due 30 days after the date read for the default, 5 hours, importance 5, no
\* dependencies), and writes a priority_score above 0 and a score_breakdown
\* with the four component scores.
C8_DefaultsSubstituted ==
  outcome = "returned" =>
    LET t == heap[batch[1]]
    IN  /\ t["priority_score"] > 0
        /\ {"urgency", "importance", "effort", "dependencies"}
             \subseteq DOMAIN t["score_breakdown"]
        /\ \E now1 \in {today - 1, today} :
             now1 >= FirstDay /\ Rescored(WithDefaults(t, now1))

\* A task that holds none of the optional fields, and no id, was scored.
C8_Witness ==
  /\ outcome = "returned"
  /\ DOMAIN heap[batch[1]] = {"title", "priority_score", "score_breakdown"}
  /\ strategy = "deadline_driven"

\* The tasks of the batch whose dependencies hold the id.
Dependents(id) ==
  {ref \in DOMAIN heap : id \in {Get(heap[ref], "dependencies", <<>>)[k] :
                                   k \in DOMAIN Get(heap[ref], "dependencies", <<>>)}}

\* C9: calculate_dependency_score returns 30 when no task lists the id and
\* min(30 + 25 * k, 100) when k tasks do, the task itself among them if it
\* lists its own id and a task that lists the id twice counted once; a value
\* that grows with k and stays within 30..100.
C9_DependencyScore ==
  outcome = "returned" =>
    LET k == Cardinality(Dependents(arg))
    IN  /\ score = IF k = 0 THEN 3000 ELSE Min(3000 + 2500 * k, 10000)
        /\ score >= 3000 /\ score <= 10000

\* The score of an id that three tasks list, the task itself and one that
\* lists it twice among them: the cap applies.
C9_Witness ==
  /\ outcome = "returned"
  /\ arg = IdOf(1)
  /\ Cardinality(Dependents(arg)) >= 3
  /\ batch[1] \in Dependents(arg)
  /\ \E ref \in DOMAIN heap : heap[ref]["dependencies"] = <<arg, arg>>
  /\ score = 10000

WeightKeys == {"urgency", "importance", "effort", "dependencies"}

\* The weights of the default strategy, in hundredths.
SmartBalanceRow ==
  [urgency |-> 35, importance |-> 30, effort |-> 15, dependencies |-> 20]

\* C11: whatever strategy name the scorer was constructed with, its weights
\* are four non-negative numbers over urgency, importance, effort and
\* dependencies that sum to 1.0 (100 hundredths); a recognized name has its
\* table row (fastest_wins effort 0.50, high_impact importance 0.60,
\* deadline_driven urgency 0.60) and any other name has the smart_balance
\* weights; scoring a task leaves the weights as they are.
C11_StrategyWeights ==
  /\ DOMAIN weights = WeightKeys
  /\ \A k \in WeightKeys : weights[k] >= 0
  /\ weights.urgency + weights.importance + weights.effort + weights.dependencies = 100
  /\ strategy \in DOMAIN StrategyTable => weights = StrategyTable[strategy]
  /\ strategy = "smart_balance" => weights = SmartBalanceRow
  /\ strategy = "fastest_wins" => weights.effort = 50
  /\ strategy = "high_impact" => weights.importance = 60
  /\ strategy = "deadline_driven" => weights.urgency = 60
  /\ strategy \notin DOMAIN StrategyTable => weights = SmartBalanceRow

\* A scorer constructed under a name the table does not hold has scored a
\* task.
C11_Witness ==
  /\ strategy \notin DOMAIN StrategyTable
  /\ outcome = "returned"
  /\ "priority_score" \in DOMAIN heap[batch[1]]

(***************************************************************************)
(* Properties of the date a call scores against.                           *)
(***************************************************************************)
\* Both records hold the field with one value, or neither holds it.
SameField(t1, t2, key) ==
  /\ (key \in DOMAIN t1) <=> (key \in DOMAIN t2)
  /\ key \in DOMAIN t1 => t1[key] = t2[key]

\* Two tasks with identical due_date, estimated_hours and importance that as
\* many tasks of the batch depend on.
SameInputs(ref1, ref2) ==
  /\ SameField(heap[ref1], heap[ref2], "due_date")
  /\ SameField(heap[ref1], heap[ref2], "estimated_hours")
  /\ SameField(heap[ref1], heap[ref2], "importance")
  /\ Cardinality(Dependents(heap[ref1]["id"])) = Cardinality(Dependents(heap[ref2]["id"]))

\* C12: within one score_and_sort_tasks call every task is scored against
\* one and the same current date, even when the date rolls over while the
\* call runs: two tasks of the batch with identical due_date,
\* estimated_hours, importance and dependent count come back with the same
\* urgency and the same priority_score.
C12_OneDatePerCall ==
  outcome = "returned" =>
    \A i, j \in DOMAIN sorted_tasks :
      SameInputs(sorted_tasks[i], sorted_tasks[j]) =>
        /\ heap[sorted_tasks[i]]["score_breakdown"]["urgency"]
             = heap[sorted_tasks[j]]["score_breakdown"]["urgency"]
        /\ PriorityOf(sorted_tasks[i]) = PriorityOf(sorted_tasks[j])

====
